---- MODULE Spec2Model ----
(***************************************************************************)
(* Billing, settlement and inventory accounting of PrimeCareManager        *)
(* (server/storage.ts, the /api/bills routes, shared/schema.ts).           *)
(*                                                                         *)
(* Money.  The columns are decimal(10,2); the model stores an amount as    *)
(* its integer number of hundredths ("cents").  Inside an operation the    *)
(* code computes with JavaScript numbers (IEEE-754 doubles) obtained by    *)
(* parseFloat, and writes number.toString() back into a decimal(10,2)      *)
(* column, which rounds to two places.  The doubles are modelled exactly:  *)
(* a double x is the record [c, n] with                                    *)
(*        x = c/100 + n/(100 * 2^59)                                       *)
(* where c is the nearest whole number of cents and n the (tiny) exact     *)
(* remainder.  Every double that occurs is a multiple of 2^-59.            *)
(***************************************************************************)
EXTENDS Integers, Sequences, FiniteSets, TLC

\* ------------------------------------------------------------- bounds
MaxBills == 2      \* bill rows the store may hold
MaxPaid  == 90     \* |paidAmount| in cents a settlement may reach
MaxOversold == 3   \* units below zero a direct stock call may reach
MaxExp   == 12     \* doubles below 2^(MaxExp-6) are modelled
DaysPerMonth == 2  \* days of a month of the model
TicksPerDay == 4   \* instants of a day of the model
StartYear == 2     \* the year the clock starts in
MaxTicks == 3      \* instants the clock may advance
MaxVisits == 2     \* visit rows the store may hold
MaxPatients == 2   \* patient rows the store may hold
MaxExpenses == 1

\* The rows of each kind the billing page holds at most.
MaxRows == 2   \* expense rows the store may hold

\* ------------------------------------------------------- IEEE doubles
Dbl(c, n) == [c |-> c, n |-> n]

Zero == Dbl(0, 0)

IsNeg(x) == x.c < 0 \/ (x.c = 0 /\ x.n < 0)

\* The exponent j of the unit in the last place, 2^j units of 2^-59, of the
\* binade that holds x: 2^(j-7) <= |x| < 2^(j-6) (j = 0 below 2^-7, where every
\* multiple of 2^-59 is a double).
UlpExp(x) ==
    LET a == IF IsNeg(x) THEN Dbl(-x.c, -x.n) ELSE x
        S == {j \in 0..MaxExp :
                \/ 128 * a.c > 100 * (2 ^ j)
                \/ (128 * a.c = 100 * (2 ^ j) /\ a.n >= 0)}
    IN  IF S = {} THEN 0 ELSE CHOOSE j \in S : \A k \in S : k <= j

\* 25 * Inv25 = 1 modulo 2^(MaxExp+1), since 25 * 41 = 1 + 2^10.
Inv25 == (41 * (1 - 1024)) % (2 ^ (MaxExp + 1))

\* Round to nearest double, ties to even.  With M = x * 2^59 (an integer,
\* 100 M = c 2^59 + n), M modulo 2U is Inv25 * n/4 modulo 2U.
RoundD(x) ==
    LET U == 2 ^ UlpExp(x)
        m == (Inv25 * ((x.n \div 4) % (2 ^ (MaxExp + 1)))) % (2 * U)
        r == m % U
        d == IF 2 * r < U \/ (2 * r = U /\ ((m - r) \div U) % 2 = 0)
             THEN -r ELSE U - r
    IN  Dbl(x.c, x.n + 100 * d)

\* parseFloat of the decimal string of c cents: the double nearest c/100.
\* Its remainder n is the multiple of 4U that is -c * 2^59 modulo 25, and
\* 2^59 = 13 modulo 25.
parseFloat(c) ==
    LET a == IF c < 0 THEN -c ELSE c
        p == 2 ^ (UlpExp(Dbl(a, 0)) + 2)
        t == CHOOSE t \in -12..12 : (p * t + 13 * a) % 25 = 0
    IN  IF c < 0 THEN Dbl(c, -(p * t)) ELSE Dbl(c, p * t)

Add(x, y) == RoundD(Dbl(x.c + y.c, x.n + y.n))

Sub(x, y) == RoundD(Dbl(x.c - y.c, x.n - y.n))

\* x <= 0
Leq0(x) == x.c < 0 \/ (x.c = 0 /\ x.n <= 0)

\* number.toString() written to a decimal(10,2) column: rounded to cents.
toNumeric(x) == x.c

\* number.toString() returned to the caller: the shortest decimal that reads
\* back as x.  It is the decimal of x.c cents exactly when x is the double
\* nearest to that decimal ("0.3"); any other double prints with more places
\* ("0.30000000000000004"), a decimal that is not a whole number of cents.
toString(x) == [cents |-> x.c, exact |-> x = parseFloat(x.c)]

\* ------------------------------------------------------------- inputs
Procs == {1, 2}

PatientIdInputs == {1, 2}

TreatmentLines ==
    { [treatmentId |-> 1, treatmentName |-> "Consultation", amount |-> 10],
      [treatmentId |-> 1, treatmentName |-> "Consultation", amount |-> 90],
      [treatmentId |-> 2, treatmentName |-> "Dressing", amount |-> 10] }

MedicineLines ==
    { [medicineId |-> 1, medicineName |-> "Paracetamol", quantity |-> 2,
         unitPrice |-> 10, amount |-> 20],
      [medicineId |-> 2, medicineName |-> "Ibuprofen", quantity |-> 1,
         unitPrice |-> 10, amount |-> 10],
      [medicineId |-> 3, medicineName |-> "Aspirin", quantity |-> 1,
         unitPrice |-> 10, amount |-> 10] }

TreatmentItemInputs == {<<>>} \cup {<<t>> : t \in TreatmentLines}

\* Two lines of one medicine, of two medicines, and a line of a medicine
\* that does not exist after one that does.
MedicineItemInputs ==
    LET A == [medicineId |-> 1, medicineName |-> "Paracetamol", quantity |-> 2,
         unitPrice |-> 10, amount |-> 20]
        B == [medicineId |-> 2, medicineName |-> "Ibuprofen", quantity |-> 1,
         unitPrice |-> 10, amount |-> 10]
        C == [medicineId |-> 3, medicineName |-> "Aspirin", quantity |-> 1,
         unitPrice |-> 10, amount |-> 10]
    IN  {<<>>, <<A>>, <<A, A>>, <<A, B>>, <<A, C>>}

PaidAmountInputs == {0, 30}

CallerTotalInputs == {0, 70}

\* The amounts the settlement contract admits (non-negative) ...
SettleAmountInputs == {60}

\* ... and an amount it does not: the handler passes on whatever it is sent.
SignedSettleAmountInputs == {60, -30}

BillIdInputs == 1..(MaxBills + 1)

ExpenseAmountInputs == {10}

\* "YYYY-MM": December before the clock starts, and the months it runs through.
MonthInputs ==
    { [year |-> StartYear - 1, mon |-> 12],
      [year |-> StartYear, mon |-> 1],
      [year |-> StartYear, mon |-> 2] }

\* ----------------------------------------------------- dates and months
\* A timestamp is a count of instants.  A day has TicksPerDay instants: its
\* first is 00:00:00.000, its last but one 23:59:59.000 and its last lies
\* within the last second of the day (23:59:59.5); a month has DaysPerMonth
\* days and a year twelve months.
MonthsPerYear == 12

TicksPerMonth == DaysPerMonth * TicksPerDay

\* new Date(year, monthIndex, day, 23, 59, 59): the hours, minutes and seconds
\* of the last whole second of a day.
LastSecond == TicksPerDay - 2

\* new Date(year, monthIndex, day, ...) at instant tick of the day.  A day 0
\* is the last day of the month before, as in JavaScript.
Date(year, monthIndex, day, tick) ==
    ((year * MonthsPerYear + monthIndex) * DaysPerMonth + (day - 1))
        * TicksPerDay + tick

\* format(date, "yyyy-MM"): the month string, as its year and month.
FormatMonth(date) ==
    [year |-> (date \div TicksPerMonth) \div MonthsPerYear,
     mon  |-> ((date \div TicksPerMonth) % MonthsPerYear) + 1]

\* subMonths(date, amount) of date-fns: the same day and time, amount months
\* earlier (every month of the model has the same days).
subMonths(date, amount) == date - amount * TicksPerMonth

\* today.setHours(0, 0, 0, 0)
StartOfDay(date) == date - (date % TicksPerDay)

\* tomorrow.setDate(tomorrow.getDate() + 1)
NextDay(date) == date + TicksPerDay

\* The clock starts on the last day of January of year StartYear, at midday.
StartOfClock == Date(StartYear, 0, DaysPerMonth, 1)

\* -------------------------------------------------------------- state
VARIABLES
    patients,            \* ids of the rows of table patients
    treatments,          \* table treatments: id -> [name, price]
    medicines,           \* table medicines: id -> [name, price, quantity,
                         \*                         totalEarnings]
    bills,               \* table bills, row id = index
    billTreatmentItems,  \* table bill_treatment_items
    billMedicineItems,   \* table bill_medicine_items
    visits,              \* table visits: rows [patientId, visitDate]
    expenses,            \* table expenses: rows [amount, date]
    registered,          \* column registration_date of patients: id -> date
    now,                 \* the clock: the instant new Date() and now() return
    form,                \* the billing page: its state and the last request
                         \* it submitted
    calls                \* per request: its operation, position and locals,
                         \* and the log of the store operations it has done

vars == <<patients, treatments, medicines, bills, billTreatmentItems,
          billMedicineItems, visits, expenses, registered, now, form, calls>>

store == <<patients, treatments, medicines, bills, billTreatmentItems,
           billMedicineItems>>

rest == <<visits, expenses, registered, now, form>>

NoReport ==
    [treatmentEarnings |-> toString(Zero), medicineEarnings |-> toString(Zero),
     totalEarnings |-> toString(Zero), totalExpenses |-> toString(Zero),
     profit |-> toString(Zero), patientCount |-> 0, billCount |-> 0]

NoMonth == [year |-> 0, mon |-> 0]

NoStats ==
    [totalPatients |-> 0, todayPatients |-> 0, pendingPayments |-> 0,
     totalRevenue |-> toString(Zero)]

NoMedicine == [found |-> FALSE, quantity |-> 0, totalEarnings |-> 0]

NoBill == [found |-> FALSE, totalAmount |-> 0, paidAmount |-> 0]

NoPre == [bills |-> <<>>, treatmentItems |-> 0, medicineItems |-> 0,
          medicines |-> <<>>]

IdleCall ==
    [op |-> "idle", pc |-> "idle", status |-> 0,
     patientId |-> 0, paidAmount |-> 0,
     treatmentItemsData |-> <<>>, medicineItemsData |-> <<>>,
     created |-> 0, i |-> 0, medicine |-> NoMedicine,
     id |-> 0, amount |-> 0, bill |-> NoBill, pre |-> NoPre,
     month |-> NoMonth, report |-> NoReport, repeat |-> FALSE,
     lastMonth |-> [month |-> NoMonth, report |-> NoReport],
     last6Months |-> <<>>, today |-> 0, stats |-> NoStats,
     log |-> <<>>]

\* The billing page as it is first rendered, and after resetForm().  A
\* selectedPatientId of 0 is null, a paidAmount of "" the empty field.
NoRequest ==
    [sent |-> FALSE, patientId |-> 0, treatmentItems |-> <<>>,
     medicineItems |-> <<>>, paidAmount |-> ""]

InitialForm ==
    [selectedPatientId |-> 0, treatmentItems |-> <<>>, medicineItems |-> <<>>,
     paidAmount |-> "", isPending |-> FALSE, request |-> NoRequest]

InitialTreatments == (1 :> [name |-> "Consultation", price |-> 10])

InitialMedicines ==
    (1 :> [name |-> "Paracetamol", price |-> 10, quantity |-> 1,
           totalEarnings |-> 0]) @@
    (2 :> [name |-> "Ibuprofen", price |-> 10, quantity |-> 3,
           totalEarnings |-> 0])

Init ==
    /\ patients = {1}
    /\ treatments = InitialTreatments
    /\ medicines = InitialMedicines
    /\ bills = <<>>
    /\ billTreatmentItems = <<>>
    /\ billMedicineItems = <<>>
    /\ visits = <<>>
    /\ expenses = <<>>
    /\ registered = (1 :> Date(StartYear - 1, 11, 1, 0))
    /\ now = StartOfClock
    /\ form = InitialForm
    /\ calls = [p \in Procs |-> IdleCall]

Busy(p) == calls[p].pc \notin {"idle", "done", "failed"}

\* The store as a request finds it (kept to state what the request changed).
Pre ==
    [bills |-> bills, treatmentItems |-> Len(billTreatmentItems),
     medicineItems |-> Len(billMedicineItems), medicines |-> medicines]

Fail(p) ==
    calls' = [calls EXCEPT ![p].pc = "failed", ![p].status = 400]

\* ---------------------------------------------------------- createBill
\* items.reduce((sum, item) => sum + parseFloat(item.amount), 0)
RECURSIVE SumFrom(_, _, _)
SumFrom(items, k, sum) ==
    IF k > Len(items) THEN sum
    ELSE SumFrom(items, k + 1, Add(sum, parseFloat(items[k].amount)))

SumAmounts(items) == SumFrom(items, 1, Zero)

BillTotal(treatmentItemsData, medicineItemsData) ==
    Add(SumAmounts(treatmentItemsData), SumAmounts(medicineItemsData))

BillStatus(pendingAmount) == IF Leq0(pendingAmount) THEN "paid" ELSE "pending"

\* NewBillRow with the spread last ({totalAmount, ..., ...billData}): the
\* caller's totalAmount, pendingAmount and status win.
NewBillRowCallerWins(billData, treatmentItemsData, medicineItemsData) ==
    [patientId     |-> billData.patientId,
     totalAmount   |-> billData.totalAmount,
     paidAmount    |-> toNumeric(parseFloat(billData.paidAmount)),
     pendingAmount |-> billData.pendingAmount,
     status        |-> billData.status]

\* The row createBill inserts: the caller's bill data, overridden by the
\* computed totalAmount, paidAmount, pendingAmount and status.
NewBillRow(billData, treatmentItemsData, medicineItemsData) ==
    LET totalAmount   == BillTotal(treatmentItemsData, medicineItemsData)
        paidAmount    == parseFloat(billData.paidAmount)
        pendingAmount == Sub(totalAmount, paidAmount)
    IN  [patientId     |-> billData.patientId,
         totalAmount   |-> toNumeric(totalAmount),
         paidAmount    |-> toNumeric(paidAmount),
         pendingAmount |-> toNumeric(pendingAmount),
         status        |-> BillStatus(pendingAmount)]

\* Where createBill goes after the bill row, or after item k of a loop.
AfterTreatmentItem(c, k) ==
    IF k < Len(c.treatmentItemsData) THEN [pc |-> "treatmentItem", i |-> k + 1]
    ELSE IF Len(c.medicineItemsData) > 0 THEN [pc |-> "medicineItem", i |-> 1]
    ELSE [pc |-> "done", i |-> 0]

AfterMedicineItem(c, k) ==
    IF k < Len(c.medicineItemsData) THEN [pc |-> "medicineItem", i |-> k + 1]
    ELSE [pc |-> "done", i |-> 0]

Goto(p, to, status) ==
    calls' = [calls EXCEPT ![p].pc = to.pc, ![p].i = to.i,
                           ![p].status = IF to.pc = "done" THEN status ELSE 0]

\* An entry of a request's log: a store operation it has done for line k of
\* its items (0 for the bill itself).
Event(op, k) == [op |-> op, line |-> k]

GotoLogged(p, to, status, event) ==
    calls' = [calls EXCEPT ![p].pc = to.pc, ![p].i = to.i,
                           ![p].status = IF to.pc = "done" THEN status ELSE 0,
                           ![p].log = Append(@, event)]

\* POST /api/bills: the handler reads the body and calls storage.createBill.
CreateBillCallOf(p, patientIds, paidAmounts, treatmentInputs, medicineInputs) ==
    /\ ~Busy(p)
    /\ Len(bills) < MaxBills
    /\ \E patientId \in patientIds, paidAmount \in paidAmounts,
          treatmentItems \in treatmentInputs,
          medicineItems \in medicineInputs :
          calls' = [calls EXCEPT ![p] =
                      [IdleCall EXCEPT !.op = "createBill", !.pc = "insertBill",
                                       !.patientId = patientId,
                                       !.paidAmount = paidAmount,
                                       !.treatmentItemsData = treatmentItems,
                                       !.medicineItemsData = medicineItems,
                                       !.pre = Pre]]
    /\ UNCHANGED <<store, rest>>

CreateBillCall(p) ==
    CreateBillCallOf(p, PatientIdInputs, PaidAmountInputs,
                     TreatmentItemInputs, MedicineItemInputs)

\* db.insert(bills).values({...billData, totalAmount, ...}).returning()
\* bill_date is left to its default, now().
\* The totalAmount, pendingAmount and status of the caller's bill data are read
\* nowhere else, so they are drawn here.  The insert is refused when patientId
\* references no patient (bills.patient_id references patients.id).
CreateBillInsertBill(p) ==
    LET c == calls[p] IN
    /\ c.pc = "insertBill"
    /\ \E callerTotal \in CallerTotalInputs :
          IF c.patientId \in patients
          THEN /\ bills' = Append(bills,
                     [billDate |-> now] @@
                     NewBillRow([patientId |-> c.patientId,
                                 paidAmount |-> c.paidAmount,
                                 totalAmount |-> callerTotal,
                                 pendingAmount |-> 0, status |-> "pending"],
                                c.treatmentItemsData, c.medicineItemsData))
               /\ LET to == AfterTreatmentItem(c, 0) IN
                  calls' = [calls EXCEPT ![p].created = Len(bills) + 1,
                                         ![p].pc = to.pc, ![p].i = to.i,
                                         ![p].status =
                                             IF to.pc = "done" THEN 201 ELSE 0,
                                         ![p].log =
                                             Append(@, Event("insertBill", 0))]
          ELSE /\ Fail(p)
               /\ UNCHANGED bills
    /\ UNCHANGED <<patients, treatments, medicines, billTreatmentItems,
                   billMedicineItems>>
    /\ UNCHANGED rest

\* db.insert(billTreatmentItems).values({...item, billId: created.id})
CreateBillInsertTreatmentItem(p) ==
    LET c == calls[p]
        item == c.treatmentItemsData[c.i] IN
    /\ c.pc = "treatmentItem"
    /\ IF item.treatmentId \in DOMAIN treatments
          THEN /\ billTreatmentItems' = Append(billTreatmentItems,
                     [billId |-> c.created, treatmentId |-> item.treatmentId,
                      treatmentName |-> item.treatmentName,
                      amount |-> item.amount])
               /\ GotoLogged(p, AfterTreatmentItem(c, c.i), 201,
                             Event("insertTreatmentItem", c.i))
          ELSE /\ Fail(p)
               /\ UNCHANGED billTreatmentItems
    /\ UNCHANGED <<patients, treatments, medicines, bills, billMedicineItems>>
    /\ UNCHANGED rest

\* CreateBillInsertMedicineItem going on to the next line without the call of
\* updateMedicineStock.
CreateBillInsertMedicineItemOnly(p) ==
    LET c == calls[p]
        item == c.medicineItemsData[c.i] IN
    /\ c.pc = "medicineItem"
    /\ IF item.medicineId \in DOMAIN medicines
          THEN /\ billMedicineItems' = Append(billMedicineItems,
                     [billId |-> c.created, medicineId |-> item.medicineId,
                      medicineName |-> item.medicineName,
                      quantity |-> item.quantity,
                      unitPrice |-> item.unitPrice, amount |-> item.amount])
               /\ GotoLogged(p, AfterMedicineItem(c, c.i), 201,
                             Event("insertMedicineItem", c.i))
          ELSE /\ Fail(p)
               /\ UNCHANGED billMedicineItems
    /\ UNCHANGED <<patients, treatments, medicines, bills, billTreatmentItems>>
    /\ UNCHANGED rest

\* db.insert(billMedicineItems).values({...item, billId: created.id}), then
\* this.updateMedicineStock(item.medicineId, item.quantity, parseFloat(item.amount))
CreateBillInsertMedicineItem(p) ==
    LET c == calls[p]
        item == c.medicineItemsData[c.i] IN
    /\ c.pc = "medicineItem"
    /\ IF item.medicineId \in DOMAIN medicines
          THEN /\ billMedicineItems' = Append(billMedicineItems,
                     [billId |-> c.created, medicineId |-> item.medicineId,
                      medicineName |-> item.medicineName,
                      quantity |-> item.quantity,
                      unitPrice |-> item.unitPrice, amount |-> item.amount])
               /\ calls' = [calls EXCEPT
                        ![p].pc = "stockRead",
                        ![p].id = item.medicineId,
                        ![p].log = Append(@, Event("insertMedicineItem", c.i))]
          ELSE /\ Fail(p)
               /\ UNCHANGED billMedicineItems
    /\ UNCHANGED <<patients, treatments, medicines, bills, billTreatmentItems>>
    /\ UNCHANGED rest

\* -------------------------------------------------- updateMedicineStock
\* What updateMedicineStock was called with: by createBill its current
\* medicine line, by a direct caller the arguments of the call.
StockArgs(c) ==
    IF c.op = "createBill"
    THEN [quantityUsed |-> c.medicineItemsData[c.i].quantity,
          earnings     |-> parseFloat(c.medicineItemsData[c.i].amount)]
    ELSE [quantityUsed |-> c.i, earnings |-> parseFloat(c.amount)]

\* Where the caller continues when updateMedicineStock returns.
AfterStock(c) ==
    IF c.op = "createBill" THEN AfterMedicineItem(c, c.i)
    ELSE [pc |-> "done", i |-> c.i]

StockStatus(c) == IF c.op = "createBill" THEN 201 ELSE 200

\* StockRow refusing to go below zero: quantity clamped at 0.
StockRowClamped(medicine, quantityUsed, earnings) ==
    [quantity      |-> IF medicine.quantity < quantityUsed THEN 0
                       ELSE medicine.quantity - quantityUsed,
     totalEarnings |-> toNumeric(Add(parseFloat(medicine.totalEarnings),
                                     earnings))]

\* The columns the update sets, from the row it read.
StockRow(medicine, quantityUsed, earnings) ==
    [quantity      |-> medicine.quantity - quantityUsed,
     totalEarnings |-> toNumeric(Add(parseFloat(medicine.totalEarnings),
                                     earnings))]

\* The log entry of a call of updateMedicineStock: by createBill for its
\* current medicine line.
StockEvent(c) ==
    Event("updateMedicineStock", IF c.op = "createBill" THEN c.i ELSE 0)

\* UpdateMedicineStockRead taking the row from the medicines as they were
\* when the request arrived, not from the table as it is now.
UpdateMedicineStockReadOnce(p) ==
    LET c == calls[p] IN
    /\ c.pc = "stockRead"
    /\ IF c.id \in DOMAIN medicines
       THEN calls' = [calls EXCEPT
                ![p].pc = "stockWrite",
                ![p].medicine =
                    [found |-> TRUE,
                     quantity |-> c.pre.medicines[c.id].quantity,
                     totalEarnings |-> c.pre.medicines[c.id].totalEarnings],
                ![p].log = Append(@, StockEvent(c))]
       ELSE GotoLogged(p, AfterStock(c), StockStatus(c), StockEvent(c))
    /\ UNCHANGED <<store, rest>>

\* const [medicine] = await db.select().from(medicines).where(eq(id))
\* if (medicine) {...}: without a row the function returns, having done nothing.
UpdateMedicineStockRead(p) ==
    LET c == calls[p] IN
    /\ c.pc = "stockRead"
    /\ IF c.id \in DOMAIN medicines
       THEN calls' = [calls EXCEPT
                ![p].pc = "stockWrite",
                ![p].medicine = [found |-> TRUE,
                                 quantity |-> medicines[c.id].quantity,
                                 totalEarnings |-> medicines[c.id].totalEarnings],
                ![p].log = Append(@, StockEvent(c))]
       ELSE GotoLogged(p, AfterStock(c), StockStatus(c), StockEvent(c))
    /\ UNCHANGED <<store, rest>>

\* UpdateMedicineStockWrite as one atomic read-modify-write of the row
\* (set quantity = quantity - quantityUsed): it starts from the row as it is
\* now, not from the row the request read.
UpdateMedicineStockWriteAtomic(p) ==
    LET c == calls[p]
        a == StockArgs(c) IN
    /\ c.pc = "stockWrite"
    /\ \E ok \in BOOLEAN :
          IF ok
          THEN /\ medicines' =
                    IF c.id \in DOMAIN medicines
                    THEN [medicines EXCEPT ![c.id] =
                            StockRow(@, a.quantityUsed, a.earnings) @@ @]
                    ELSE medicines
               /\ Goto(p, AfterStock(c), StockStatus(c))
          ELSE /\ Fail(p)
               /\ UNCHANGED medicines
    /\ UNCHANGED <<patients, treatments, bills, billTreatmentItems,
                   billMedicineItems>>
    /\ UNCHANGED rest

\* await db.update(medicines).set({quantity, totalEarnings}).where(eq(id))
\* The update can be refused: total_earnings is decimal(10,2), which a sum
\* beyond 99999999.99 overflows (amounts the model does not reach), and the
\* store can be unavailable.  The error leaves createBill where it stands.
UpdateMedicineStockWrite(p) ==
    LET c == calls[p]
        a == StockArgs(c) IN
    /\ c.pc = "stockWrite"
    /\ \E ok \in BOOLEAN :
          IF ok
          THEN /\ medicines' =
                    IF c.id \in DOMAIN medicines
                    THEN [medicines EXCEPT ![c.id] =
                            StockRow(c.medicine, a.quantityUsed, a.earnings)
                                @@ @]
                    ELSE medicines
               /\ Goto(p, AfterStock(c), StockStatus(c))
          ELSE /\ Fail(p)
               /\ UNCHANGED medicines
    /\ UNCHANGED <<patients, treatments, bills, billTreatmentItems,
                   billMedicineItems>>
    /\ UNCHANGED rest

\* A direct call of storage.updateMedicineStock(id, quantityUsed, earnings).
UpdateMedicineStockCall(p) ==
    /\ ~Busy(p)
    /\ \E line \in MedicineLines :
          /\ line.medicineId \in DOMAIN medicines =>
                 medicines[line.medicineId].quantity - line.quantity
                     >= -MaxOversold
          /\ calls' = [calls EXCEPT ![p] =
                         [IdleCall EXCEPT !.op = "updateMedicineStock",
                                          !.pc = "stockRead",
                                          !.id = line.medicineId,
                                          !.i = line.quantity,
                                          !.amount = line.amount,
                                          !.pre = Pre]]
    /\ UNCHANGED <<store, rest>>

\* ------------------------------------------------------- settlePayment
\* SettledRow taking the pending amount from the amount alone.
SettledRowForgetsPaid(bill, amount) ==
    LET newPaidAmount    == Add(parseFloat(bill.paidAmount), parseFloat(amount))
        newPendingAmount == Sub(parseFloat(bill.totalAmount), parseFloat(amount))
    IN  [paidAmount    |-> toNumeric(newPaidAmount),
         pendingAmount |-> toNumeric(newPendingAmount),
         status        |-> BillStatus(newPendingAmount)]

\* SettledRow subtracting the amount from what was paid.
SettledRowSubtracts(bill, amount) ==
    LET newPaidAmount    == Sub(parseFloat(bill.paidAmount), parseFloat(amount))
        newPendingAmount == Sub(parseFloat(bill.totalAmount), newPaidAmount)
    IN  [paidAmount    |-> toNumeric(newPaidAmount),
         pendingAmount |-> toNumeric(newPendingAmount),
         status        |-> BillStatus(newPendingAmount)]

\* SettledRow clamping an overpayment: pendingAmount never below zero.
SettledRowClamped(bill, amount) ==
    LET newPaidAmount    == Add(parseFloat(bill.paidAmount), parseFloat(amount))
        newPendingAmount == Sub(parseFloat(bill.totalAmount), newPaidAmount)
    IN  [paidAmount    |-> toNumeric(newPaidAmount),
         pendingAmount |-> IF IsNeg(newPendingAmount) THEN 0
                           ELSE toNumeric(newPendingAmount),
         status        |-> BillStatus(newPendingAmount)]

\* The columns settlePayment sets, from the row it read.
SettledRow(bill, amount) ==
    LET newPaidAmount    == Add(parseFloat(bill.paidAmount), parseFloat(amount))
        newPendingAmount == Sub(parseFloat(bill.totalAmount), newPaidAmount)
    IN  [paidAmount    |-> toNumeric(newPaidAmount),
         pendingAmount |-> toNumeric(newPendingAmount),
         status        |-> BillStatus(newPendingAmount)]

Abs(k) == IF k < 0 THEN -k ELSE k

\* POST /api/bills/:id/settle: the handler calls storage.settlePayment(id, amount).
SettlePaymentCallOf(p, amounts) ==
    /\ ~Busy(p)
    /\ \E billId \in BillIdInputs, amount \in amounts :
          /\ billId \in 1..Len(bills) =>
                 Abs(bills[billId].paidAmount + amount) <= MaxPaid
          /\ calls' = [calls EXCEPT ![p] =
                         [IdleCall EXCEPT !.op = "settlePayment",
                                          !.pc = "settleRead",
                                          !.id = billId, !.amount = amount,
                                          !.pre = Pre]]
    /\ UNCHANGED <<store, rest>>

SettlePaymentCall(p) == SettlePaymentCallOf(p, SettleAmountInputs)

SettlePaymentCallSigned(p) == SettlePaymentCallOf(p, SignedSettleAmountInputs)

\* SettlePaymentRead guarding the update with if (bill), as
\* updateMedicineStock does: without a row it returns and the handler answers.
SettlePaymentReadSilent(p) ==
    LET c == calls[p] IN
    /\ c.pc = "settleRead"
    /\ IF c.id \in 1..Len(bills)
       THEN calls' = [calls EXCEPT
                ![p].pc = "settleWrite",
                ![p].bill = [found |-> TRUE,
                             totalAmount |-> bills[c.id].totalAmount,
                             paidAmount |-> bills[c.id].paidAmount]]
       ELSE calls' = [calls EXCEPT ![p].pc = "done", ![p].status = 200]
    /\ UNCHANGED <<store, rest>>

\* const [bill] = await db.select().from(bills).where(eq(bills.id, billId));
\* if (!bill) throw new Error("Bill not found"): the handler answers 400.
SettlePaymentRead(p) ==
    LET c == calls[p] IN
    /\ c.pc = "settleRead"
    /\ IF c.id \in 1..Len(bills)
       THEN calls' = [calls EXCEPT
                ![p].pc = "settleWrite",
                ![p].bill = [found |-> TRUE,
                             totalAmount |-> bills[c.id].totalAmount,
                             paidAmount |-> bills[c.id].paidAmount]]
       ELSE Fail(p)
    /\ UNCHANGED <<store, rest>>

\* SettlePaymentWrite without its where clause: every bill takes the values.
SettlePaymentWriteAll(p) ==
    LET c == calls[p]
        row == SettledRow(c.bill, c.amount) IN
    /\ c.pc = "settleWrite"
    /\ bills' = [b \in 1..Len(bills) |->
                    [bills[b] EXCEPT !.paidAmount = row.paidAmount,
                                     !.pendingAmount = row.pendingAmount,
                                     !.status = row.status]]
    /\ calls' = [calls EXCEPT ![p].pc = "done", ![p].status = 200]
    /\ UNCHANGED <<patients, treatments, medicines, billTreatmentItems,
                   billMedicineItems>>
    /\ UNCHANGED rest

\* await db.update(bills).set({paidAmount, pendingAmount, status}).where(eq(id))
SettlePaymentWrite(p) ==
    LET c == calls[p]
        row == SettledRow(c.bill, c.amount) IN
    /\ c.pc = "settleWrite"
    /\ bills' = [bills EXCEPT ![c.id].paidAmount = row.paidAmount,
                              ![c.id].pendingAmount = row.pendingAmount,
                              ![c.id].status = row.status]
    /\ calls' = [calls EXCEPT ![p].pc = "done", ![p].status = 200]
    /\ UNCHANGED <<patients, treatments, medicines, billTreatmentItems,
                   billMedicineItems>>
    /\ UNCHANGED rest

\* ------------------------------------------------------- the clock
Tick ==
    /\ now < StartOfClock + MaxTicks
    /\ now' = now + 1
    /\ UNCHANGED <<store, visits, expenses, registered, form, calls>>

\* ------------------------------------------------- visits and expenses
\* POST /api/visits: db.insert(visits).values(visit); visit_date is left to
\* its default, now().  The insert is refused when patientId references no
\* patient (visits.patient_id references patients.id).
CreateVisit(p) ==
    /\ ~Busy(p)
    /\ Len(visits) < MaxVisits
    /\ \E patientId \in PatientIdInputs :
          IF patientId \in patients
          THEN /\ visits' = Append(visits,
                               [patientId |-> patientId, visitDate |-> now])
               /\ calls' = [calls EXCEPT ![p] =
                              [IdleCall EXCEPT !.op = "createVisit",
                                               !.pc = "done", !.status = 201,
                                               !.patientId = patientId]]
          ELSE /\ calls' = [calls EXCEPT ![p] =
                              [IdleCall EXCEPT !.op = "createVisit",
                                               !.pc = "failed", !.status = 400,
                                               !.patientId = patientId]]
               /\ UNCHANGED visits
    /\ UNCHANGED <<store, expenses, registered, now, form>>

\* POST /api/patients: storage.createPatient(data); registration_date is left
\* to its default, now().  With complaints and a diagnosis in the body the
\* handler then records the initial visit.
RegisterPatient(p) ==
    /\ ~Busy(p)
    /\ Cardinality(patients) < MaxPatients
    /\ LET id == Cardinality(patients) + 1 IN
       /\ patients' = patients \cup {id}
       /\ registered' = (id :> now) @@ registered
       /\ \E initialVisit \in BOOLEAN :
             calls' = [calls EXCEPT ![p] =
                         [IdleCall EXCEPT
                             !.op = "registerPatient",
                             !.pc = IF initialVisit THEN "initialVisit"
                                    ELSE "done",
                             !.status = IF initialVisit THEN 0 ELSE 201,
                             !.patientId = id]]
    /\ UNCHANGED <<treatments, medicines, bills, billTreatmentItems,
                   billMedicineItems, visits, expenses, now, form>>

\* await storage.createVisit({patientId: patient.id, ...})
RegisterPatientVisit(p) ==
    /\ calls[p].pc = "initialVisit"
    /\ visits' = Append(visits, [patientId |-> calls[p].patientId,
                                 visitDate |-> now])
    /\ calls' = [calls EXCEPT ![p].pc = "done", ![p].status = 201]
    /\ UNCHANGED <<store, expenses, registered, now, form>>

\* POST /api/expenses: db.insert(expenses).values(expense); date is left to
\* its default, now() (insertExpenseSchema omits it).
CreateExpense(p) ==
    /\ ~Busy(p)
    /\ Len(expenses) < MaxExpenses
    /\ \E amount \in ExpenseAmountInputs :
          /\ expenses' = Append(expenses, [amount |-> amount, date |-> now])
          /\ calls' = [calls EXCEPT ![p] =
                         [IdleCall EXCEPT !.op = "createExpense",
                                          !.pc = "done", !.status = 201,
                                          !.amount = amount]]
    /\ UNCHANGED <<store, visits, registered, now, form>>

\* -------------------------------------------------------- the catalog
\* The bodies of PATCH /api/treatments/:id and PATCH /api/medicines/:id, which
\* the handlers pass on as they come: all the columns or some.
TreatmentBodies == { [name |-> "Checkup", price |-> 25], [price |-> 25] }

MedicineBodies == { [name |-> "Calpol", price |-> 25], [price |-> 25] }

TreatmentIdInputs == {1, 2}

MedicineIdInputs == {1, 2, 3}

\* bill_treatment_items.treatment_id and bill_medicine_items.medicine_id
\* reference their catalog row with no ON DELETE clause: a row some line item
\* references cannot be deleted.
Referenced(items, column, id) ==
    \E k \in 1..Len(items) : items[k][column] = id

Without(table, id) == [k \in DOMAIN table \ {id} |-> table[k]]

CatalogCall(p, op, id, status) ==
    calls' = [calls EXCEPT ![p] =
                [IdleCall EXCEPT !.op = op, !.id = id,
                                 !.pc = IF status = 400 THEN "failed" ELSE "done",
                                 !.status = status]]

\* PATCH /api/treatments/:id: db.update(treatments).set(treatment).where(eq(id))
\* Without a row nothing is updated and the handler answers all the same.
UpdateTreatment(p) ==
    /\ ~Busy(p)
    /\ \E id \in TreatmentIdInputs, treatment \in TreatmentBodies :
          /\ treatments' = IF id \in DOMAIN treatments
                           THEN [treatments EXCEPT ![id] = treatment @@ @]
                           ELSE treatments
          /\ CatalogCall(p, "updateTreatment", id, 200)
    /\ UNCHANGED <<patients, medicines, bills, billTreatmentItems,
                   billMedicineItems>>
    /\ UNCHANGED rest

\* DELETE /api/treatments/:id: db.delete(treatments).where(eq(id))
DeleteTreatment(p) ==
    /\ ~Busy(p)
    /\ \E id \in TreatmentIdInputs :
          IF Referenced(billTreatmentItems, "treatmentId", id)
          THEN /\ CatalogCall(p, "deleteTreatment", id, 400)
               /\ UNCHANGED treatments
          ELSE /\ treatments' = Without(treatments, id)
               /\ CatalogCall(p, "deleteTreatment", id, 204)
    /\ UNCHANGED <<patients, medicines, bills, billTreatmentItems,
                   billMedicineItems>>
    /\ UNCHANGED rest

\* UpdateMedicine through a view that joins each line item to its catalog row:
\* the new name and price show in the lines already stored.
UpdateMedicineJoined(p) ==
    /\ ~Busy(p)
    /\ \E id \in MedicineIdInputs, medicine \in MedicineBodies :
          /\ medicines' = IF id \in DOMAIN medicines
                          THEN [medicines EXCEPT ![id] = medicine @@ @]
                          ELSE medicines
          /\ billMedicineItems' =
                [k \in 1..Len(billMedicineItems) |->
                    IF billMedicineItems[k].medicineId = id
                       /\ id \in DOMAIN medicines
                    THEN [billMedicineItems[k] EXCEPT
                             !.medicineName = medicines'[id].name,
                             !.unitPrice = medicines'[id].price]
                    ELSE billMedicineItems[k]]
          /\ CatalogCall(p, "updateMedicine", id, 200)
    /\ UNCHANGED <<patients, treatments, bills, billTreatmentItems>>
    /\ UNCHANGED rest

\* PATCH /api/medicines/:id: db.update(medicines).set(medicine).where(eq(id))
UpdateMedicine(p) ==
    /\ ~Busy(p)
    /\ \E id \in MedicineIdInputs, medicine \in MedicineBodies :
          /\ medicines' = IF id \in DOMAIN medicines
                          THEN [medicines EXCEPT ![id] = medicine @@ @]
                          ELSE medicines
          /\ CatalogCall(p, "updateMedicine", id, 200)
    /\ UNCHANGED <<patients, treatments, bills, billTreatmentItems,
                   billMedicineItems>>
    /\ UNCHANGED rest

\* DELETE /api/medicines/:id: db.delete(medicines).where(eq(id))
DeleteMedicine(p) ==
    /\ ~Busy(p)
    /\ \E id \in MedicineIdInputs :
          IF Referenced(billMedicineItems, "medicineId", id)
          THEN /\ CatalogCall(p, "deleteMedicine", id, 400)
               /\ UNCHANGED medicines
          ELSE /\ medicines' = Without(medicines, id)
               /\ CatalogCall(p, "deleteMedicine", id, 204)
    /\ UNCHANGED <<patients, treatments, bills, billTreatmentItems,
                   billMedicineItems>>
    /\ UNCHANGED rest

\* ---------------------------------------------------- the billing page
\* The page keeps its own state; what it does to the store it does through
\* the request it submits.  An amount or unit price of "" (a row with nothing
\* selected) is 0 here, as in parseFloat(item.amount || "0").
QuantityInputs == {1, 2}

FormPaidInputs == {"", "0.30"}

RemoveAt(items, index) ==
    [k \in 1..(Len(items) - 1) |-> IF k < index THEN items[k] ELSE items[k + 1]]

Selected(items, column) == SelectSeq(items, LAMBDA item : item[column] > 0)

FormStep(after) == form' = after /\ UNCHANGED <<store, calls>>
                   /\ UNCHANGED <<visits, expenses, registered, now>>

\* onClick={() => setSelectedPatientId(patient.id)}
SelectPatient ==
    \E id \in patients :
        FormStep([form EXCEPT !.selectedPatientId = id])

\* onChange={(e) => setPaidAmount(e.target.value)}
SetPaidAmount ==
    \E value \in FormPaidInputs :
        FormStep([form EXCEPT !.paidAmount = value])

addTreatmentItem ==
    /\ Len(form.treatmentItems) < MaxRows
    /\ FormStep([form EXCEPT !.treatmentItems =
                    Append(@, [treatmentId |-> 0, treatmentName |-> "",
                               amount |-> 0])])

addMedicineItem ==
    /\ Len(form.medicineItems) < MaxRows
    /\ FormStep([form EXCEPT !.medicineItems =
                    Append(@, [medicineId |-> 0, medicineName |-> "",
                               quantity |-> 1, unitPrice |-> 0,
                               amount |-> 0])])

\* The row takes the treatment's id, name and price; an id the catalog does
\* not hold leaves the row as it is.
updateTreatmentItem ==
    \E index \in 1..Len(form.treatmentItems), treatmentId \in TreatmentIdInputs :
        FormStep(IF treatmentId \in DOMAIN treatments
                 THEN [form EXCEPT !.treatmentItems[index] =
                          [treatmentId   |-> treatmentId,
                           treatmentName |-> treatments[treatmentId].name,
                           amount        |-> treatments[treatmentId].price]]
                 ELSE form)

removeTreatmentItem ==
    \E index \in 1..Len(form.treatmentItems) :
        FormStep([form EXCEPT !.treatmentItems = RemoveAt(@, index)])

\* (parseFloat(medicine.price) * qty).toFixed(2): whole cents times a small
\* quantity.
updateMedicineItem ==
    \E index \in 1..Len(form.medicineItems), medicineId \in MedicineIdInputs :
        FormStep(IF medicineId \in DOMAIN medicines
                 THEN LET qty == form.medicineItems[index].quantity IN
                      [form EXCEPT !.medicineItems[index] =
                          [medicineId   |-> medicineId,
                           medicineName |-> medicines[medicineId].name,
                           quantity     |-> qty,
                           unitPrice    |-> medicines[medicineId].price,
                           amount       |-> medicines[medicineId].price * qty]]
                 ELSE form)

updateMedicineQuantity ==
    \E index \in 1..Len(form.medicineItems), quantity \in QuantityInputs :
        FormStep([form EXCEPT
                    !.medicineItems[index].quantity = quantity,
                    !.medicineItems[index].amount =
                        form.medicineItems[index].unitPrice * quantity])

removeMedicineItem ==
    \E index \in 1..Len(form.medicineItems) :
        FormStep([form EXCEPT !.medicineItems = RemoveAt(@, index)])

\* !(treatmentItems.length === 0 && medicineItems.length === 0)
HasItems == Len(form.treatmentItems) > 0 \/ Len(form.medicineItems) > 0

\* "Generate Bill": the button is disabled while a request is pending and
\* while no patient is selected.  The request carries the lines that have a
\* treatment or medicine selected.
handleCreateBill ==
    /\ ~form.isPending
    /\ form.selectedPatientId # 0
    /\ FormStep(IF HasItems
                THEN [form EXCEPT
                        !.isPending = TRUE,
                        !.request =
                            [sent |-> TRUE,
                             patientId |-> form.selectedPatientId,
                             treatmentItems |->
                                 Selected(form.treatmentItems, "treatmentId"),
                             medicineItems |->
                                 Selected(form.medicineItems, "medicineId"),
                             paidAmount |-> IF form.paidAmount = "" THEN "0"
                                            ELSE form.paidAmount]]
                ELSE form)

\* onSuccess: resetForm(); onError: the form stays as it is.
CreateBillSettled ==
    /\ form.isPending
    /\ \E ok \in BOOLEAN :
          FormStep(IF ok
                   THEN [InitialForm EXCEPT !.request = form.request]
                   ELSE [form EXCEPT !.isPending = FALSE])

\* ----------------------------------------------------- getMonthlyReport
\* and(gte(column, startDate), lte(column, endDate))
InRange(date, startDate, endDate) == startDate <= date /\ date <= endDate

\* new Date(parseInt(year), parseInt(mon) - 1, 1)
StartDate(month) == Date(month.year, month.mon - 1, 1, 0)

\* new Date(parseInt(year), parseInt(mon), 0, 23, 59, 59)
EndDate(month) == Date(month.year, month.mon, 0, LastSecond)

\* db.select().from(items).where(eq(items.billId, bill.id))
ItemsOfBill(items, billId) ==
    SelectSeq(items, LAMBDA item : item.billId = billId)

\* for (const bill of monthBills) earnings += itemsOfBill.reduce(...), over
\* the bills of the range in the order of their ids.
RECURSIVE EarningsFrom(_, _, _, _, _)
EarningsFrom(items, startDate, endDate, b, earnings) ==
    IF b > Len(bills) THEN earnings
    ELSE EarningsFrom(items, startDate, endDate, b + 1,
             IF InRange(bills[b].billDate, startDate, endDate)
             THEN Add(earnings, SumAmounts(ItemsOfBill(items, b)))
             ELSE earnings)

\* monthExpenses.reduce((sum, e) => sum + parseFloat(e.amount), 0)
RECURSIVE ExpensesFrom(_, _, _, _)
ExpensesFrom(startDate, endDate, k, sum) ==
    IF k > Len(expenses) THEN sum
    ELSE ExpensesFrom(startDate, endDate, k + 1,
             IF InRange(expenses[k].date, startDate, endDate)
             THEN Add(sum, parseFloat(expenses[k].amount))
             ELSE sum)

\* new Set(monthVisits.map(v => v.patientId)).size
PatientsVisiting(startDate, endDate) ==
    { visits[k].patientId : k \in
         { j \in 1..Len(visits) :
              InRange(visits[j].visitDate, startDate, endDate) } }

\* The report over the bills, expenses and visits dated in
\* [startDate, endDate], both ends included.
ReportOver(startDate, endDate) ==
    LET treatmentEarnings ==
            EarningsFrom(billTreatmentItems, startDate, endDate, 1, Zero)
        medicineEarnings ==
            EarningsFrom(billMedicineItems, startDate, endDate, 1, Zero)
        totalEarnings == Add(treatmentEarnings, medicineEarnings)
        totalExpensesAmount == ExpensesFrom(startDate, endDate, 1, Zero)
        profit == Sub(totalEarnings, totalExpensesAmount)
    IN  [treatmentEarnings |-> toString(treatmentEarnings),
         medicineEarnings  |-> toString(medicineEarnings),
         totalEarnings     |-> toString(totalEarnings),
         totalExpenses     |-> toString(totalExpensesAmount),
         profit            |-> toString(profit),
         patientCount      |-> Cardinality(PatientsVisiting(startDate, endDate)),
         billCount         |-> Cardinality({b \in 1..Len(bills) :
                                  InRange(bills[b].billDate, startDate, endDate)})]

\* MonthlyReport of the month so far: nothing dated at or after the present
\* instant.
MonthlyReportToDate(month) ==
    ReportOver(StartDate(month),
               IF now <= EndDate(month) THEN now - 1 ELSE EndDate(month))

\* MonthlyReport with no lower end of the range: everything up to endDate.
MonthlyReportNoStart(month) == ReportOver(0, EndDate(month))

\* storage.getMonthlyReport(month)
MonthlyReport(month) == ReportOver(StartDate(month), EndDate(month))

\* A call of storage.getMonthlyReport(month): reads only.  (repeat: the
\* request before this one asked for the report of the same month.)
GetMonthlyReport(p) ==
    /\ ~Busy(p)
    /\ \E month \in MonthInputs :
          calls' = [calls EXCEPT ![p] =
                      [IdleCall EXCEPT !.op = "getMonthlyReport",
                                       !.pc = "done", !.status = 200,
                                       !.month = month,
                                       !.report = MonthlyReport(month),
                                       !.repeat =
                                           /\ calls[p].op = "getMonthlyReport"
                                           /\ calls[p].month = month]]
    /\ UNCHANGED <<store, rest>>

\* ---------------------------------------------------- getDashboardStats
\* A call of storage.getDashboardStats().
GetDashboardStats(p) ==
    /\ ~Busy(p)
    /\ calls' = [calls EXCEPT ![p] =
                   [IdleCall EXCEPT !.op = "getDashboardStats",
                                    !.pc = "allPatients"]]
    /\ UNCHANGED <<store, rest>>

\* const allPatients = await db.select().from(patients); then
\* today = new Date(); today.setHours(0, 0, 0, 0)
DashboardPatients(p) ==
    /\ calls[p].pc = "allPatients"
    /\ calls' = [calls EXCEPT
                   ![p].pc = "todayVisits",
                   ![p].stats.totalPatients = Cardinality(patients),
                   ![p].today = StartOfDay(now)]
    /\ UNCHANGED <<store, rest>>

\* The patientId of the rows of await db.select().from(visits).where(and(
\* gte(visits.visitDate, today), lte(visits.visitDate, tomorrow)))
TodayPatients(today, tomorrow) ==
    { visits[k].patientId : k \in
         { j \in 1..Len(visits) :
              InRange(visits[j].visitDate, today, tomorrow) } }

DashboardVisits(p) ==
    /\ calls[p].pc = "todayVisits"
    /\ calls' = [calls EXCEPT
                   ![p].pc = "pendingBills",
                   ![p].stats.todayPatients =
                       Cardinality(TodayPatients(calls[p].today,
                                                 NextDay(calls[p].today)))]
    /\ UNCHANGED <<store, rest>>

\* await db.select().from(bills).where(eq(bills.status, "pending"))
DashboardPending(p) ==
    /\ calls[p].pc = "pendingBills"
    /\ calls' = [calls EXCEPT
                   ![p].pc = "allBills",
                   ![p].stats.pendingPayments =
                       Cardinality({b \in 1..Len(bills) :
                                       bills[b].status = "pending"})]
    /\ UNCHANGED <<store, rest>>

\* allBills.reduce((sum, b) => sum + parseFloat(b.paidAmount), 0)
RECURSIVE RevenueFrom(_, _)
RevenueFrom(b, sum) ==
    IF b > Len(bills) THEN sum
    ELSE RevenueFrom(b + 1, Add(sum, parseFloat(bills[b].paidAmount)))

\* totalRevenue: totalRevenue.toString()
TotalRevenue == toString(RevenueFrom(1, Zero))

\* const allBills = await db.select().from(bills); return {...}
DashboardBills(p) ==
    /\ calls[p].pc = "allBills"
    /\ calls' = [calls EXCEPT ![p].pc = "done", ![p].status = 200,
                              ![p].stats.totalRevenue = TotalRevenue]
    /\ UNCHANGED <<store, rest>>

DashboardStep(p) ==
    \/ DashboardPatients(p)
    \/ DashboardVisits(p)
    \/ DashboardPending(p)
    \/ DashboardBills(p)

\* ------------------------------------------------------ GET /api/reports
\* The local time of new Date("YYYY-MM-01"), which is midnight UTC of the
\* first of the month: an instant of the day before in a zone west of
\* Greenwich, midnight at Greenwich, later that day east of it.
TimeZones == {-1, 0, 1}

\* for (let i = 5; i >= 0; i--) { date = subMonths(new Date(), i); ... push
\* ({month: format(date, "MMM"), ...report}) }: entry k is that of i = 6 - k.
Last6Months ==
    [k \in 1..6 |->
        LET date == subMonths(now, 6 - k) IN
        [month  |-> FormatMonth(date).mon,
         report |-> MonthlyReport(FormatMonth(date))]]

\* GET /api/reports?month=selectedMonth (the month of today by default).
GetReports(p) ==
    /\ ~Busy(p)
    /\ \E selectedMonth \in MonthInputs \cup {FormatMonth(now)},
          zone \in TimeZones :
          LET lastMonthDate ==
                  subMonths(StartDate(selectedMonth) + zone, 1)
              lastMonthStr == FormatMonth(lastMonthDate)
          IN  calls' = [calls EXCEPT ![p] =
                          [IdleCall EXCEPT
                              !.op = "getReports",
                              !.pc = "done", !.status = 200,
                              !.month = selectedMonth,
                              !.report = MonthlyReport(selectedMonth),
                              !.lastMonth =
                                  [month |-> lastMonthStr,
                                   report |-> MonthlyReport(lastMonthStr)],
                              !.last6Months = Last6Months]]
    /\ UNCHANGED <<store, rest>>

\* ------------------------------------------------------ specifications
\* One request at a time (the single logical writer the system assumes):
\* request 1 runs each operation to its end before the next one starts.
SeqProcs == {1}

Step(p) ==
    \/ CreateBillInsertBill(p)
    \/ CreateBillInsertTreatmentItem(p)
    \/ CreateBillInsertMedicineItem(p)
    \/ UpdateMedicineStockRead(p)
    \/ UpdateMedicineStockWrite(p)
    \/ SettlePaymentRead(p)
    \/ SettlePaymentWrite(p)

Next ==
    \E p \in SeqProcs :
        \/ CreateBillCall(p)
        \/ SettlePaymentCall(p)
        \/ Step(p)

Spec == Init /\ [][Next]_vars

\* The same, with settlement amounts of either sign.
SignedNext ==
    \E p \in SeqProcs :
        \/ CreateBillCall(p)
        \/ SettlePaymentCallSigned(p)
        \/ Step(p)

SignedSpec == Init /\ [][SignedNext]_vars

\* The stock-consume operation of the storage interface called on its own.
StockNext ==
    \E p \in SeqProcs :
        \/ UpdateMedicineStockCall(p)
        \/ UpdateMedicineStockRead(p)
        \/ UpdateMedicineStockWrite(p)

StockSpec == Init /\ [][StockNext]_vars

\* Bills of a 0.10 treatment line, with and without a 0.20 medicine line, for
\* patient 1 and with nothing paid, dated by the running clock.
CreateBillCallDated(p) ==
    CreateBillCallOf(p, {1}, {0},
        {<<[treatmentId |-> 1, treatmentName |-> "Consultation", amount |-> 10]>>},
        {<<>>, <<[medicineId |-> 1, medicineName |-> "Paracetamol", quantity |-> 2,
         unitPrice |-> 10, amount |-> 20]>>})

\* One request at a time while the clock runs: bills, expenses and visits are
\* recorded and the monthly report is read.
ReportNext ==
    \/ Tick
    \/ \E p \in SeqProcs :
          \/ CreateBillCallDated(p)
          \/ CreateBillInsertBill(p)
          \/ CreateBillInsertTreatmentItem(p)
          \/ CreateBillInsertMedicineItem(p)
          \/ UpdateMedicineStockRead(p)
          \/ UpdateMedicineStockWrite(p)
          \/ CreateExpense(p)
          \/ CreateVisit(p)
          \/ GetMonthlyReport(p)

ReportSpec == Init /\ [][ReportNext]_vars

\* One request at a time while the clock runs: patients are registered,
\* visits recorded and the monthly report read.
VisitNext ==
    \/ Tick
    \/ \E p \in SeqProcs :
          \/ RegisterPatient(p)
          \/ RegisterPatientVisit(p)
          \/ CreateVisit(p)
          \/ CreateExpense(p)
          \/ GetMonthlyReport(p)

VisitSpec == Init /\ [][VisitNext]_vars

\* One request at a time while the clock runs: expenses and visits are
\* recorded and the reports page is read.
TrendNext ==
    \/ Tick
    \/ \E p \in SeqProcs :
          \/ CreateExpense(p)
          \/ CreateVisit(p)
          \/ GetReports(p)

TrendSpec == Init /\ [][TrendNext]_vars

\* Two requests side by side while the clock runs: each records visits and
\* reads the dashboard.
TodayNext ==
    \/ Tick
    \/ \E p \in Procs :
          \/ CreateVisit(p)
          \/ GetDashboardStats(p)
          \/ DashboardStep(p)

TodaySpec == Init /\ [][TodayNext]_vars

\* Bills of one 0.90 treatment line for patient 1, nothing or 0.30 paid.
CreateBillCallPartPaid(p) ==
    CreateBillCallOf(p, {1}, PaidAmountInputs,
        {<<[treatmentId |-> 1, treatmentName |-> "Consultation", amount |-> 90]>>}, {<<>>})

\* Bills of one line of medicine 2, of quantity 1 or 2, for patient 1.
CreateBillCallRace(p) ==
    CreateBillCallOf(p, {1}, {0}, {<<>>},
        { <<[medicineId |-> 2, medicineName |-> "Ibuprofen", quantity |-> q,
             unitPrice |-> 10, amount |-> 10 * q]>> : q \in {1, 2} })

\* Two createBill requests at a time: the steps of one interleave with the
\* steps of the other at every await.
StockRaceNext ==
    \E p \in Procs :
        \/ CreateBillCallRace(p)
        \/ CreateBillInsertBill(p)
        \/ CreateBillInsertMedicineItem(p)
        \/ UpdateMedicineStockRead(p)
        \/ UpdateMedicineStockWrite(p)

StockRaceSpec == Init /\ [][StockRaceNext]_vars

\* The first bill, of one 0.90 treatment line, created while no other request
\* runs.
CreateBillCallFirst(p) ==
    /\ Len(bills) = 0
    /\ \A q \in Procs : ~Busy(q)
    /\ CreateBillCallOf(p, {1}, {0},
           {<<[treatmentId |-> 1, treatmentName |-> "Consultation",
               amount |-> 90]>>}, {<<>>})

\* Settlements of 0.30 and of 0.60.
SettlePaymentCallRace(p) == SettlePaymentCallOf(p, {30, 60})

\* Two settlements at a time on the bills of the store.
SettleRaceNext ==
    \E p \in Procs :
        \/ CreateBillCallFirst(p)
        \/ CreateBillInsertBill(p)
        \/ CreateBillInsertTreatmentItem(p)
        \/ SettlePaymentCallRace(p)
        \/ SettlePaymentRead(p)
        \/ SettlePaymentWrite(p)

SettleRaceSpec == Init /\ [][SettleRaceNext]_vars

\* The billing page in the hands of its user.
FormNext ==
    \/ SelectPatient
    \/ SetPaidAmount
    \/ addTreatmentItem
    \/ updateTreatmentItem
    \/ removeTreatmentItem
    \/ addMedicineItem
    \/ updateMedicineItem
    \/ updateMedicineQuantity
    \/ removeMedicineItem
    \/ handleCreateBill
    \/ CreateBillSettled

FormSpec == Init /\ [][FormNext]_vars

\* One request at a time: bills are created and settled while the catalog is
\* edited.
CatalogNext ==
    \E p \in SeqProcs :
        \/ CreateBillCallDated(p)
        \/ CreateBillInsertBill(p)
        \/ CreateBillInsertTreatmentItem(p)
        \/ CreateBillInsertMedicineItem(p)
        \/ UpdateMedicineStockRead(p)
        \/ UpdateMedicineStockWrite(p)
        \/ SettlePaymentCall(p)
        \/ SettlePaymentRead(p)
        \/ SettlePaymentWrite(p)
        \/ UpdateTreatment(p)
        \/ DeleteTreatment(p)
        \/ UpdateMedicine(p)
        \/ DeleteMedicine(p)

CatalogSpec == Init /\ [][CatalogNext]_vars

\* One request at a time: bills are created and settled and the dashboard
\* is read.
RevenueNext ==
    \E p \in SeqProcs :
        \/ CreateBillCallPartPaid(p)
        \/ CreateBillInsertBill(p)
        \/ CreateBillInsertTreatmentItem(p)
        \/ SettlePaymentCall(p)
        \/ SettlePaymentRead(p)
        \/ SettlePaymentWrite(p)
        \/ GetDashboardStats(p)
        \/ DashboardStep(p)

RevenueSpec == Init /\ [][RevenueNext]_vars

\* ============================================================== claims
RECURSIVE SumCents(_, _)
SumCents(items, k) ==
    IF k > Len(items) THEN 0 ELSE items[k].amount + SumCents(items, k + 1)

\* The lines of items that name medicine m.
LinesOf(items, m) == {k \in 1..Len(items) : items[k].medicineId = m}

RECURSIVE SumOver(_, _, _)
SumOver(items, ks, field) ==
    IF ks = {} THEN 0
    ELSE LET k == CHOOSE k \in ks : TRUE
         IN  items[k][field] + SumOver(items, ks \ {k}, field)

CreateBillDone(p) ==
    calls[p].op = "createBill" /\ calls[p].pc = "done"

SettleDone(p) ==
    calls[p].op = "settlePayment" /\ calls[p].pc = "done"

\* The pending amount of the bill a settlement read.
PendingRead(c) == c.bill.totalAmount - c.bill.paidAmount

\* C1: after any sequence of createBill and settlePayment operations (amounts
\* of either sign), every stored bill has
\* pendingAmount = totalAmount - paidAmount.
C1_PendingIsTotalMinusPaid ==
    \A b \in 1..Len(bills) :
        bills[b].pendingAmount = bills[b].totalAmount - bills[b].paidAmount

\* A bill created part-paid and then settled twice, up and down.
C1_Witness ==
    \E p \in SeqProcs :
        /\ SettleDone(p)
        /\ calls[p].amount < 0
        /\ calls[p].bill.paidAmount = 90
        /\ bills[calls[p].id].totalAmount = 90
        /\ bills[calls[p].id].pendingAmount = 30

\* C2: every stored bill has status "paid" if and only if its pendingAmount
\* is <= 0, and status "pending" otherwise.
C2_StatusIffPendingNotPositive ==
    \A b \in 1..Len(bills) :
        /\ bills[b].status \in {"paid", "pending"}
        /\ bills[b].status = "paid" <=> bills[b].pendingAmount <= 0

\* C3: the totalAmount stored by createBill is exactly the sum of the amounts
\* of the submitted treatment lines plus that of the submitted medicine lines,
\* whatever totalAmount the caller passed.
C3_TotalIsSumOfLines ==
    \A p \in SeqProcs :
        (calls[p].op = "createBill" /\ calls[p].created # 0) =>
            bills[calls[p].created].totalAmount =
                SumCents(calls[p].treatmentItemsData, 1)
                    + SumCents(calls[p].medicineItemsData, 1)

\* A bill of a 0.10 treatment and a 0.20 medicine line, whose sum as doubles
\* is 0.30000000000000004, stored with total 0.30.
C3_Witness ==
    \E p \in SeqProcs :
        /\ CreateBillDone(p)
        /\ Len(calls[p].treatmentItemsData) = 1
        /\ Len(calls[p].medicineItemsData) = 1
        /\ bills[calls[p].created].totalAmount = 30

\* C4: a completed createBill with a medicine line of quantity Q and amount A
\* for an existing medicine M (the bill's one line for M; prior quantity P,
\* prior earnings E) leaves M.quantity = P - Q and M.totalEarnings = E + A,
\* also when Q > P: the bill is accepted and the quantity is negative.
C4_StockConsumed ==
    \A p \in SeqProcs :
        CreateBillDone(p) =>
            \A k \in 1..Len(calls[p].medicineItemsData) :
                LET item == calls[p].medicineItemsData[k]
                    m == item.medicineId
                IN  (m \in DOMAIN calls[p].pre.medicines
                     /\ LinesOf(calls[p].medicineItemsData, m) = {k}) =>
                        /\ calls[p].status = 201
                        /\ m \in DOMAIN medicines
                        /\ medicines[m].quantity =
                               calls[p].pre.medicines[m].quantity - item.quantity
                        /\ medicines[m].totalEarnings =
                               calls[p].pre.medicines[m].totalEarnings + item.amount

\* A completed bill that sold 2 units of a medicine with fewer on hand.
C4_Witness ==
    \E p \in SeqProcs :
        /\ CreateBillDone(p)
        /\ \E k \in 1..Len(calls[p].medicineItemsData) :
              LET item == calls[p].medicineItemsData[k]
                  m == item.medicineId
              IN  /\ LinesOf(calls[p].medicineItemsData, m) = {k}
                  /\ item.quantity > calls[p].pre.medicines[m].quantity
                  /\ medicines[m].quantity < 0
                  /\ medicines[m].totalEarnings > 0

\* C5: createBill is all-or-nothing: when one of its writes fails, the store
\* holds no bill row, no line item and no stock or earnings change of the call.
C5_FailedCreateBillLeavesNothing ==
    \A p \in SeqProcs :
        (calls[p].op = "createBill" /\ calls[p].pc = "failed") =>
            /\ bills = calls[p].pre.bills
            /\ Len(billTreatmentItems) = calls[p].pre.treatmentItems
            /\ Len(billMedicineItems) = calls[p].pre.medicineItems
            /\ medicines = calls[p].pre.medicines

\* C6: while no createBill is in progress, for each medicine M the initial
\* quantity minus the current one is the sum of quantity over the stored bill
\* medicine items of M, and the earnings gained are the sum of their amounts.
C6_StockReconciles ==
    (\A p \in SeqProcs : ~Busy(p)) =>
        \A m \in DOMAIN medicines :
            LET ks == LinesOf(billMedicineItems, m) IN
            /\ InitialMedicines[m].quantity - medicines[m].quantity
                   = SumOver(billMedicineItems, ks, "quantity")
            /\ medicines[m].totalEarnings - InitialMedicines[m].totalEarnings
                   = SumOver(billMedicineItems, ks, "amount")

\* C7: settlement is monotonic: a settlePayment with a non-negative amount
\* never lowers a bill's paidAmount, however many follow one another.
C7_SettlementMonotonic ==
    [][\A p \in SeqProcs :
          (calls[p].op = "settlePayment" /\ calls[p].amount >= 0) =>
              \A b \in 1..Len(bills) :
                  bills'[b].paidAmount >= bills[b].paidAmount]_vars

\* A settlement of 0.60 on a part-paid bill, raising its paidAmount from 0.30
\* to 0.90, beyond the bill's total.
C7_Witness ==
    \E p \in SeqProcs :
        /\ SettleDone(p)
        /\ calls[p].amount > 0
        /\ calls[p].bill.paidAmount = 30
        /\ calls[p].pre.bills[calls[p].id].paidAmount = 30
        /\ bills[calls[p].id].paidAmount = 90
        /\ bills[calls[p].id].totalAmount < 90

\* C8: settlePayment adds amount to paidAmount (it does not replace it) and
\* stores pendingAmount = totalAmount - the new paidAmount; settling exactly
\* the pending amount yields pendingAmount 0 and status "paid".
C8_SettleIncrements ==
    \A p \in SeqProcs :
        SettleDone(p) =>
            LET c == calls[p]
                b == bills[c.id]
            IN  /\ b.paidAmount = c.bill.paidAmount + c.amount
                /\ b.pendingAmount = b.totalAmount - b.paidAmount
                /\ c.amount = PendingRead(c) =>
                       (b.pendingAmount = 0 /\ b.status = "paid")

\* C9: a settlePayment of more than the pending amount is accepted: it
\* succeeds and stores the negative pendingAmount totalAmount - new paidAmount,
\* with status "paid".
C9_OverpaymentAccepted ==
    \A p \in SeqProcs :
        LET c == calls[p] IN
        (c.op = "settlePayment" /\ c.bill.found /\ c.amount > PendingRead(c)
         /\ c.pc \in {"done", "failed"}) =>
            /\ c.pc = "done"
            /\ c.status = 200
            /\ bills[c.id].paidAmount = c.bill.paidAmount + c.amount
            /\ bills[c.id].pendingAmount =
                   c.bill.totalAmount - (c.bill.paidAmount + c.amount)
            /\ bills[c.id].pendingAmount < 0
            /\ bills[c.id].status = "paid"

\* 0.60 settled on a bill of 0.10 of which 0.30 were paid already.
C9_Witness ==
    \E p \in SeqProcs :
        /\ SettleDone(p)
        /\ calls[p].bill.paidAmount > 0
        /\ calls[p].amount > PendingRead(calls[p])
        /\ bills[calls[p].id].pendingAmount < 0

\* C10: updateMedicineStock for a medicineId that does not exist fails (it
\* does not return having done nothing), so a createBill with a line of a
\* missing medicine does not complete.
C10_MissingMedicineFails ==
    \A p \in SeqProcs :
        /\ (calls[p].op = "updateMedicineStock" /\ calls[p].pc = "done") =>
               calls[p].id \in DOMAIN calls[p].pre.medicines
        /\ CreateBillDone(p) =>
               \A k \in 1..Len(calls[p].medicineItemsData) :
                   calls[p].medicineItemsData[k].medicineId
                       \in DOMAIN calls[p].pre.medicines

\* C11: settlePayment with a billId that references no bill fails with an
\* error and changes nothing: no bill row is created or modified.
C11_SettleMissingBillFails ==
    \A p \in SeqProcs :
        LET c == calls[p] IN
        (c.op = "settlePayment" /\ c.id \notin 1..Len(c.pre.bills)
         /\ c.pc # "settleRead") =>
            /\ c.pc = "failed"
            /\ c.status >= 400
            /\ bills = c.pre.bills
            /\ medicines = c.pre.medicines
            /\ Len(billTreatmentItems) = c.pre.treatmentItems
            /\ Len(billMedicineItems) = c.pre.medicineItems

\* A settlement of bill 3 refused while the store holds bills 1 and 2.
C11_Witness ==
    \E p \in SeqProcs :
        /\ calls[p].op = "settlePayment"
        /\ calls[p].pc = "failed"
        /\ calls[p].id = Len(bills) + 1
        /\ Len(bills) = MaxBills

\* C12: createBill with a patientId that references no patient fails with a
\* NotFound error (reported with status 404) and creates no bill, no line item
\* and no stock change.
C12_MissingPatientNotFound ==
    \A p \in SeqProcs :
        LET c == calls[p] IN
        (c.op = "createBill" /\ c.patientId \notin patients
         /\ c.pc # "insertBill") =>
            /\ c.pc = "failed"
            /\ c.status = 404
            /\ bills = c.pre.bills
            /\ Len(billTreatmentItems) = c.pre.treatmentItems
            /\ Len(billMedicineItems) = c.pre.medicineItems
            /\ medicines = c.pre.medicines

\* C13: the settle endpoint called with the id of a bill that does not exist
\* answers with the not-found status 404, not the status 400 it uses for
\* malformed input.
C13_SettleMissingBillIs404 ==
    \A p \in SeqProcs :
        LET c == calls[p] IN
        (c.op = "settlePayment" /\ c.pc = "failed" /\ ~c.bill.found) =>
            (c.status = 404 /\ c.status # 400)

ReportDone(p) ==
    calls[p].op = "getMonthlyReport" /\ calls[p].pc = "done"

\* C14: for every month and every store state, the amounts getMonthlyReport
\* returns satisfy totalEarnings = treatmentEarnings + medicineEarnings and
\* profit = totalEarnings - totalExpenses, as decimals.  (Stated where the
\* operands are whole cents; the sum of two such decimals is one itself.)
C14_ReportTotalsAddUp ==
    \A p \in SeqProcs :
        ReportDone(p) =>
            LET r == calls[p].report IN
            /\ (r.treatmentEarnings.exact /\ r.medicineEarnings.exact) =>
                   /\ r.totalEarnings.exact
                   /\ r.totalEarnings.cents =
                          r.treatmentEarnings.cents + r.medicineEarnings.cents
            /\ (r.totalEarnings.exact /\ r.totalExpenses.exact) =>
                   /\ r.profit.exact
                   /\ r.profit.cents =
                          r.totalEarnings.cents - r.totalExpenses.cents

\* C15: getMonthlyReport is a pure read: it changes no stored record, and a
\* second call for the same month, with no write since the first, returns the
\* same report.
C15_ReportIsPureRead ==
    [][\A p \in SeqProcs :
          (calls'[p].op = "getMonthlyReport" /\ calls'[p] # calls[p]) =>
              /\ store' = store
              /\ visits' = visits
              /\ expenses' = expenses
              /\ (calls[p].op = "getMonthlyReport"
                  /\ calls[p].month = calls'[p].month) =>
                     calls'[p].report = calls[p].report]_vars

\* The report of a month with a bill and an expense, read a second time
\* after the clock has moved on.
C15_Witness ==
    \E p \in SeqProcs :
        /\ ReportDone(p)
        /\ calls[p].repeat
        /\ calls[p].report.billCount > 0
        /\ calls[p].report.totalExpenses.cents > 0
        /\ \A k \in 1..Len(expenses) : expenses[k].date < now

\* C16: getMonthlyReport for a month with no bill, no expense and no visit
\* dated in it returns zero for treatmentEarnings, medicineEarnings,
\* totalEarnings, totalExpenses and profit and 0 for patientCount and
\* billCount, whatever the other months hold.
C16_EmptyMonthIsZero ==
    \A p \in SeqProcs :
        LET c == calls[p]
            first == Date(c.month.year, c.month.mon - 1, 1, 0)
            next == first + TicksPerMonth
        IN  (/\ ReportDone(p)
             /\ \A b \in 1..Len(bills) :
                   ~(first <= bills[b].billDate /\ bills[b].billDate < next)
             /\ \A k \in 1..Len(expenses) :
                   ~(first <= expenses[k].date /\ expenses[k].date < next)
             /\ \A k \in 1..Len(visits) :
                   ~(first <= visits[k].visitDate /\ visits[k].visitDate < next))
            => c.report = NoReport

\* The report of February, empty, while January holds a bill, an expense and
\* a visit.
C16_Witness ==
    \E p \in SeqProcs :
        /\ ReportDone(p)
        /\ calls[p].month = [year |-> StartYear, mon |-> 2]
        /\ calls[p].report = NoReport
        /\ Len(billMedicineItems) > 0
        /\ Len(expenses) > 0
        /\ Len(visits) > 0

\* The patients with a visit dated in the calendar month.
VisitorsOfMonth(month) ==
    LET first == Date(month.year, month.mon - 1, 1, 0)
        next == first + TicksPerMonth
    IN  { visits[k].patientId : k \in
             { j \in 1..Len(visits) :
                  first <= visits[j].visitDate /\ visits[j].visitDate < next } }

\* C17: patientCount in getMonthlyReport is the number of distinct patientId
\* among the visits whose visitDate lies in the month: a patient with several
\* visits in the month counts once, one registered in the month with no visit
\* in it counts zero.
C17_PatientCountIsDistinctVisitors ==
    \A p \in SeqProcs :
        ReportDone(p) =>
            calls[p].report.patientCount =
                Cardinality(VisitorsOfMonth(calls[p].month))

\* The month k months before month.
MonthBefore(month, k) ==
    LET index == month.year * MonthsPerYear + (month.mon - 1) - k
    IN  [year |-> index \div MonthsPerYear, mon |-> (index % MonthsPerYear) + 1]

\* C18: the report endpoint, given a reference month M, returns as
\* last6Months the reports of the six consecutive calendar months that end
\* with M, M included, oldest first, each labelled by its month.
C18_Last6MonthsEndWithReference ==
    \A p \in SeqProcs :
        (calls[p].op = "getReports" /\ calls[p].pc = "done") =>
            /\ Len(calls[p].last6Months) = 6
            /\ \A k \in 1..6 :
                  LET m == MonthBefore(calls[p].month, 6 - k) IN
                  /\ calls[p].last6Months[k].month = m.mon
                  /\ calls[p].last6Months[k].report = MonthlyReport(m)

\* The patients with a visit dated in [today, tomorrow), tomorrow excluded.
TodayPatientsHalfOpen(today, tomorrow) ==
    { visits[k].patientId : k \in
         { j \in 1..Len(visits) :
              today <= visits[j].visitDate /\ visits[j].visitDate < tomorrow } }

\* C19: todayPatients of the dashboard counts the distinct patientId over the
\* visits dated in the half-open interval [start of today, start of
\* tomorrow): a visit stamped exactly at the start of tomorrow is not counted.
C19_TodayPatientsHalfOpen ==
    [][\A p \in Procs :
          (calls[p].pc = "todayVisits" /\ calls'[p].pc = "pendingBills") =>
              calls'[p].stats.todayPatients =
                  Cardinality(TodayPatientsHalfOpen(calls[p].today,
                                                    NextDay(calls[p].today)))]_vars

RECURSIVE PaidCents(_)
PaidCents(b) ==
    IF b > Len(bills) THEN 0 ELSE bills[b].paidAmount + PaidCents(b + 1)

\* C20: after any sequence of createBill and settlePayment operations the
\* dashboard's totalRevenue is the sum of paidAmount over all bills (what was
\* collected, not what was billed) and pendingPayments is the number of bills
\* of status "pending".
C20_RevenueIsSumOfPaid ==
    \A p \in SeqProcs :
        (calls[p].op = "getDashboardStats" /\ calls[p].pc = "done") =>
            /\ calls[p].stats.totalRevenue.exact
            /\ calls[p].stats.totalRevenue.cents = PaidCents(1)
            /\ calls[p].stats.pendingPayments =
                   Cardinality({b \in 1..Len(bills) :
                                   bills[b].status = "pending"})

\* What a step does to the line items already stored.
ItemsKept(items, after) ==
    /\ Len(after) >= Len(items)
    /\ \A k \in 1..Len(items) : after[k] = items[k]

\* C21: a stored bill line item is changed or deleted by no later operation:
\* a settlement, a later createBill and an update or a delete of a treatment or
\* a medicine leave every stored line (its name, quantity, unitPrice and
\* amount) as it is.
C21_LineItemsImmutable ==
    [][ /\ ItemsKept(billTreatmentItems, billTreatmentItems')
        /\ ItemsKept(billMedicineItems, billMedicineItems') ]_vars

\* A bill with a settlement on it whose lines keep the name and the price
\* they were stored with, after the treatment and the medicine were renamed
\* and repriced and a later bill was created.
C21_Witness ==
    \E k \in 1..Len(billMedicineItems), j \in 1..Len(billTreatmentItems) :
        LET item == billMedicineItems[k]
            line == billTreatmentItems[j] IN
        /\ item.billId = line.billId
        /\ bills[item.billId].paidAmount > 0
        /\ item.medicineId \in DOMAIN medicines
        /\ medicines[item.medicineId].name # item.medicineName
        /\ medicines[item.medicineId].price # item.unitPrice
        /\ line.treatmentId \in DOMAIN treatments
        /\ treatments[line.treatmentId].name # line.treatmentName
        /\ Len(bills) > item.billId

\* The columns of a bill no settlement writes.
FixedColumns(bill) ==
    [totalAmount |-> bill.totalAmount, patientId |-> bill.patientId,
     billDate |-> bill.billDate]

\* C22: a step of settlePayment on bill B leaves B's totalAmount, patientId
\* and billDate, every other bill, every line item and every medicine as they
\* are; and no step of any operation changes the totalAmount of a bill once it
\* is created.
C22_SettleChangesOnlyItsBill ==
    [][ /\ \A b \in 1..Len(bills) :
              /\ b <= Len(bills')
              /\ bills'[b].totalAmount = bills[b].totalAmount
        /\ \A p \in Procs :
              (calls[p].op = "settlePayment" /\ Busy(p)) =>
                  /\ Len(bills') = Len(bills)
                  /\ \A b \in 1..Len(bills) :
                        /\ FixedColumns(bills'[b]) = FixedColumns(bills[b])
                        /\ b # calls[p].id => bills'[b] = bills[b]
                  /\ UNCHANGED <<patients, treatments, medicines,
                                 billTreatmentItems, billMedicineItems>> ]_vars

\* A settlement that changed the paidAmount, pendingAmount and status of its
\* bill, with another bill and medicine lines in the store.
C22_Witness ==
    \E p \in SeqProcs :
        LET c == calls[p] IN
        /\ SettleDone(p)
        /\ Len(bills) = 2
        /\ Len(billMedicineItems) > 0
        /\ c.id \in 1..Len(bills)
        /\ bills[c.id].paidAmount # c.pre.bills[c.id].paidAmount
        /\ bills[c.id].pendingAmount # c.pre.bills[c.id].pendingAmount
        /\ bills[c.id].status # c.pre.bills[c.id].status
        /\ \A b \in 1..Len(bills) : b # c.id => bills[b] = c.pre.bills[b]

\* Two createBill requests that have both returned, each having consumed
\* medicine m after reading the same stored quantity of it.
BothReadSameStock(p, q, m) ==
    /\ p # q
    /\ \A r \in {p, q} :
          /\ CreateBillDone(r)
          /\ Len(calls[r].medicineItemsData) = 1
          /\ calls[r].medicineItemsData[1].medicineId = m
          /\ calls[r].medicine.found
    /\ calls[p].medicine.quantity = calls[q].medicine.quantity

\* C23: two concurrent createBill requests consuming the same medicine M can
\* both read the quantity P stored before either decrement; the later write
\* then overwrites the earlier one, and the final quantity is P less one of
\* the two quantities, not P - Q1 - Q2 (a lost update).
C23_StockUpdateLost ==
    \A p, q \in Procs, m \in DOMAIN medicines :
        BothReadSameStock(p, q, m) =>
            LET P  == calls[p].medicine.quantity
                Q1 == calls[p].medicineItemsData[1].quantity
                Q2 == calls[q].medicineItemsData[1].quantity IN
            /\ medicines[m].quantity \in {P - Q1, P - Q2}
            /\ medicines[m].quantity # P - Q1 - Q2

\* Both requests read 3 of medicine 2; one consumed 1 and the other 2, and
\* the quantity left is not 0.
C23_Witness ==
    /\ BothReadSameStock(1, 2, 2)
    /\ calls[1].medicine.quantity = InitialMedicines[2].quantity
    /\ calls[1].medicineItemsData[1].quantity = 1
    /\ calls[2].medicineItemsData[1].quantity = 2
    /\ medicines[2].quantity # 0

\* C25: two concurrent settlePayment requests on one bill, of amounts a1 and
\* a2, leave paidAmount = the paidAmount before both + a1 + a2 in every
\* interleaving: no payment is lost.
C25_NoPaymentLost ==
    \A p, q \in Procs :
        LET b == calls[p].id IN
        ( /\ p # q
          /\ SettleDone(p) /\ SettleDone(q)
          /\ calls[q].id = b
          /\ b \in 1..Len(bills)
          /\ calls[p].pre.bills[b].paidAmount = calls[q].pre.bills[b].paidAmount )
        => bills[b].paidAmount =
               calls[p].pre.bills[b].paidAmount + calls[p].amount + calls[q].amount

\* The store operations of a whole createBill, in order: the bill row, a row
\* per treatment line, and per medicine line its row and then its stock
\* consumption.
ExpectedLog(c) ==
    <<Event("insertBill", 0)>>
    \o [k \in 1..Len(c.treatmentItemsData) |-> Event("insertTreatmentItem", k)]
    \o [k \in 1..(2 * Len(c.medicineItemsData)) |->
           IF k % 2 = 1 THEN Event("insertMedicineItem", (k + 1) \div 2)
           ELSE Event("updateMedicineStock", k \div 2)]

IsPrefix(s, t) == Len(s) <= Len(t) /\ SubSeq(t, 1, Len(s)) = s

\* C24: within one createBill the stock consumption is invoked exactly once
\* per submitted medicine line and never for a treatment line, each time after
\* the insert of that line's item row, and all of them after the insert of the
\* bill row.
C24_StockConsumedOncePerLine ==
    \A p \in Procs :
        calls[p].op = "createBill" =>
            /\ IsPrefix(calls[p].log, ExpectedLog(calls[p]))
            /\ calls[p].pc = "done" => calls[p].log = ExpectedLog(calls[p])

\* A createBill of one treatment line and two medicine lines that has
\* returned.
C24_Witness ==
    \E p \in SeqProcs :
        /\ CreateBillDone(p)
        /\ Len(calls[p].treatmentItemsData) = 1
        /\ Len(calls[p].medicineItemsData) = 2
        /\ Len(calls[p].log) = 6
        /\ Len(billMedicineItems) >= 2

\* C26: status "paid" is absorbing under settlements of non-negative amounts,
\* one request at a time: once a bill is "paid", no later settlement of an
\* amount >= 0 and no later createBill makes it "pending" again.
C26_PaidIsAbsorbing ==
    [][ \A b \in 1..Len(bills) :
            ( /\ bills[b].status = "paid"
              /\ \A p \in Procs :
                    calls[p].pc = "settleWrite" => calls[p].amount >= 0 )
            => /\ b <= Len(bills')
               /\ bills'[b].status = "paid" ]_vars

\* A bill that was "paid" when a settlement of a positive amount arrived for
\* it, and is "paid" when the settlement has returned.
C26_Witness ==
    \E p \in SeqProcs :
        LET c == calls[p] IN
        /\ SettleDone(p)
        /\ c.amount > 0
        /\ c.id \in 1..Len(bills)
        /\ c.pre.bills[c.id].status = "paid"
        /\ bills[c.id].status = "paid"
        /\ bills[c.id].paidAmount = c.pre.bills[c.id].paidAmount + c.amount

\* The bills dated in the calendar month, whatever the instant of the day.
BillsOfMonth(month) ==
    LET first == Date(month.year, month.mon - 1, 1, 0)
        next == first + TicksPerMonth
    IN  { b \in 1..Len(bills) :
             first <= bills[b].billDate /\ bills[b].billDate < next }

\* C27: getMonthlyReport counts every bill in exactly one month, the calendar
\* month of its billDate, at sub-second resolution: the report of a month
\* counts the bills dated in it, one stamped within the last second of the
\* month's last day included, and no other.
C27_EveryBillInItsMonth ==
    \A p \in SeqProcs :
        ReportDone(p) =>
            calls[p].report.billCount = Cardinality(BillsOfMonth(calls[p].month))

\* C28: a completed createBill whose medicine lines name the same medicine M
\* more than once leaves M.quantity = P - the sum of those lines' quantities
\* and M.totalEarnings = E + the sum of their amounts (P and E as they were
\* before the call).
C28_RepeatedMedicineConsumedInFull ==
    \A p \in SeqProcs, m \in DOMAIN medicines :
        LET items == calls[p].medicineItemsData
            lines == LinesOf(items, m) IN
        (CreateBillDone(p) /\ Cardinality(lines) > 1) =>
            /\ medicines[m].quantity =
                   calls[p].pre.medicines[m].quantity
                       - SumOver(items, lines, "quantity")
            /\ medicines[m].totalEarnings =
                   calls[p].pre.medicines[m].totalEarnings
                       + SumOver(items, lines, "amount")

\* A completed bill with two lines of medicine 1, 2 units and 0.20 each, on a
\* stock of 1 with earnings of 0.40 from an earlier bill.
C28_Witness ==
    \E p \in SeqProcs :
        /\ CreateBillDone(p)
        /\ Cardinality(LinesOf(calls[p].medicineItemsData, 1)) = 2
        /\ calls[p].pre.medicines[1].totalEarnings > 0
        /\ medicines[1].quantity = calls[p].pre.medicines[1].quantity - 4
        /\ medicines[1].totalEarnings =
               calls[p].pre.medicines[1].totalEarnings + 40

RECURSIVE SumTotals(_)
SumTotals(bs) ==
    IF bs = {} THEN 0
    ELSE LET b == CHOOSE b \in bs : TRUE
         IN  bills[b].totalAmount + SumTotals(bs \ {b})

\* C29: with no createBill in progress, the totalEarnings getMonthlyReport
\* returns for a month is the sum of totalAmount over the bills whose billDate
\* is in the month, whatever has been paid on them.
C29_EarningsAreBilledTotals ==
    \A p \in SeqProcs :
        ( /\ ReportDone(p)
          /\ \A q \in Procs : ~(calls[q].op = "createBill" /\ Busy(q)) )
        => calls[p].report.totalEarnings =
               [cents |-> SumTotals(BillsOfMonth(calls[p].month)),
                exact |-> TRUE]

\* C30: whatever the user does on the billing page (adds, selects, edits and
\* removes rows, selects a patient, presses Generate Bill), the page never
\* submits a create-bill request whose treatmentItems and medicineItems are
\* both empty.
C30_FormSubmitsNoEmptyBill ==
    form.request.sent =>
        Len(form.request.treatmentItems) + Len(form.request.medicineItems) > 0

====
